---- MODULE Spec2Model ----
(***************************************************************************)
(* EduHub course back end: the enrollment, completion, review and course   *)
(* administration routes (routes/courses.js, printed after the middleware  *)
(* in src/backend/middleware/auth.js), the Course and User model methods   *)
(* they call, and the two collections they read and write.                 *)
(*                                                                         *)
(* Every action is one database operation of one request together with    *)
(* the synchronous code that follows it up to the next await.  A request   *)
(* that has to await again is parked in a slot of reqs with the documents  *)
(* it loaded; other requests may run in between.                           *)
(*                                                                         *)
(* Document.save() is Mongoose's: it sends the changes made to the loaded  *)
(* copy, not the copy.  An array push goes out as $push (appended to       *)
(* whatever the stored array holds by then) and increments the version key *)
(* __v; an assigned array goes out as $set of the whole array, guarded by  *)
(* the __v that was loaded (VersionError otherwise); an assignment of an   *)
(* equal value changes nothing; a save of a document that was deleted      *)
(* meanwhile fails.                                                        *)
(***************************************************************************)
EXTENDS Integers, Sequences, FiniteSets, TLC

VARIABLES
    courses,     \* the courses collection: course id -> stored document
    usedIds,     \* course ids handed out so far (an ObjectId is never reused)
    users,       \* the users collection: account id -> stored document
    reqs,        \* requests being served: slot -> handler position and loaded copies
    nreq,        \* number of requests received
    writeFailed, \* some save/update has thrown since start-up
    last,        \* the response sent most recently
    prev,        \* the response before last, kept when it was a successful enroll
    enrollPre    \* both reference lists as they were when that enroll arrived

vars == <<courses, usedIds, users, reqs, nreq, writeFailed, last, prev, enrollPre>>

----------------------------------------------------------------------------
(* Bounds of the model *)

MaxRequests == 2     \* requests received in one run
MaxInFlight == 2     \* requests served at the same time

----------------------------------------------------------------------------
(* Data *)

\* The three seeded accounts: a student, an instructor and an admin.
Accounts == {"stu", "ins", "adm"}

role(a) == CASE a = "stu" -> "student"
             [] a = "ins" -> "instructor"
             [] a = "adm" -> "admin"

CourseIds == {"c1", "c2"}

\* instructorId is optional: a course may have no owner recorded.
NoOwner == "null"

\* rating.average is totalRating / reviews.length; the quotient is kept as the
\* reduced fraction <<numerator, denominator>>, which determines the double.
RECURSIVE Gcd(_, _)
Gcd(a, b) == IF b = 0 THEN a ELSE Gcd(b, a % b)

Quotient(n, d) == LET g == Gcd(n, d) IN <<n \div g, d \div g>>

ZeroAverage == <<0, 1>>

RECURSIVE totalRating(_)
totalRating(reviews) ==
    IF reviews = <<>> THEN 0 ELSE reviews[1].rating + totalRating(Tail(reviews))

includes_Always(list, id) == TRUE

includes(list, id) == \E i \in 1..Len(list) : list[i] = id

without(list, id) == SelectSeq(list, LAMBDA x : x # id)

Slots == 1..MaxInFlight

Idle == [pc |-> "idle"]

AllIdle == \A r \in Slots : reqs[r] = Idle

\* A new request takes the lowest free slot.
FreeSlot(r) ==
    /\ reqs[r] = Idle
    /\ \A q \in Slots : q < r => reqs[q] # Idle
    /\ nreq < MaxRequests

NoResponse == [op |-> "none", user |-> "none", course |-> "none", status |-> 0, error |-> "none"]

NoLists == [enrolledStudents |-> <<>>, enrolledCourses |-> <<>>]

Response(op, a, c, status, error) ==
    [op |-> op, user |-> a, course |-> c, status |-> status, error |-> error]

EnrollOK(resp) == resp.op = "enroll" /\ resp.status = 200

\* res.status(..).json(..): the response leaves; pre is the pair of lists the
\* request saw on arrival (recorded for a successful enroll only).
Send(resp, pre) ==
    /\ last' = resp
    /\ prev' = IF EnrollOK(last) THEN last ELSE NoResponse
    /\ enrollPre' = IF EnrollOK(resp) THEN pre
                    ELSE IF EnrollOK(last) THEN enrollPre
                    ELSE NoLists

ListsOf(a, c) ==
    [enrolledStudents |-> IF c \in DOMAIN courses THEN courses[c].enrolledStudents ELSE <<>>,
     enrolledCourses |-> users[a].enrolledCourses]

\* A write either reaches the database or fails (connection lost, ...).
WriteOutcomes == {TRUE, FALSE}

----------------------------------------------------------------------------
(* Document.save(), as Mongoose sends it *)

\* The elements a push added to the loaded array.
pushed(loaded, local) == SubSeq(local, Len(loaded) + 1, Len(local))

\* save() after array.push(..): $push onto the stored array, $inc of __v.
savePush(stored, field, items) ==
    [stored EXCEPT ![field] = @ \o items, !.v = @ + 1]

\* save() after array = ..: $set of the whole array where __v is the loaded one.
versionOk(stored, loaded) == stored.v = loaded.v

saveSet_WholeDocument(stored, field, value) ==
    [f \in DOMAIN stored |->
        IF f = field THEN value
        ELSE IF f = "v" THEN stored.v + 1
        ELSE IF f = "completedCourses" THEN <<>>
        ELSE stored[f]]

saveSet(stored, field, value) ==
    [stored EXCEPT ![field] = value, !.v = @ + 1]

----------------------------------------------------------------------------
(* Model methods: what each does to the loaded copy *)

enrollStudent_NoPush(enrolledStudents, studentId) == enrolledStudents

\* Course.enrollStudent
enrollStudent(enrolledStudents, studentId) ==
    IF ~includes(enrolledStudents, studentId)
    THEN Append(enrolledStudents, studentId)
    ELSE enrolledStudents

\* Course.unenrollStudent
unenrollStudent(enrolledStudents, studentId) == without(enrolledStudents, studentId)

enrollInCourse_NoPush(enrolledCourses, courseId) == enrolledCourses

\* User.enrollInCourse
enrollInCourse(enrolledCourses, courseId) ==
    IF ~includes(enrolledCourses, courseId)
    THEN Append(enrolledCourses, courseId)
    ELSE enrolledCourses

unenrollFromCourse_Inverted(enrolledCourses, courseId) ==
    SelectSeq(enrolledCourses, LAMBDA x : x = courseId)

\* User.unenrollFromCourse
unenrollFromCourse(enrolledCourses, courseId) == without(enrolledCourses, courseId)

completeCourse_NoPush(completedCourses, courseId) == completedCourses

\* User.completeCourse
completeCourse(completedCourses, courseId) ==
    IF ~includes(completedCourses, courseId)
    THEN Append(completedCourses, courseId)
    ELSE completedCourses

\* Course.addReview: the review list and the aggregate of the loaded copy.
addReviewList(reviews, userId, rating) ==
    Append(SelectSeq(reviews, LAMBDA review : review.user # userId),
           [user |-> userId, rating |-> rating])

addReviewRating(reviews) ==
    [average |-> Quotient(totalRating(reviews), Len(reviews)), count |-> Len(reviews)]

\* Course.addReview's save.  The filter's result is assigned: when it removed a
\* review the list goes out as $set under the loaded __v, when it removed none
\* only the pushed review goes out.  Of rating, the members that changed go out.
addReviewReplaces(loaded, userId) ==
    SelectSeq(loaded.reviews, LAMBDA review : review.user # userId) # loaded.reviews

addReviewSave(stored, loaded, userId, rating) ==
    LET list == addReviewList(loaded.reviews, userId, rating)
        agg == addReviewRating(list)
        withList == IF addReviewReplaces(loaded, userId)
                    THEN saveSet(stored, "reviews", list)
                    ELSE savePush(stored, "reviews", pushed(loaded.reviews, list))
    IN [withList EXCEPT
          !.rating.average = IF agg.average # loaded.rating.average THEN agg.average ELSE @,
          !.rating.count = IF agg.count # loaded.rating.count THEN agg.count ELSE @]

----------------------------------------------------------------------------
(* Access control *)

\* authorize(...roles)
authorize(roles, a) == role(a) \in roles

\* course.instructorId.toString() !== req.user.id && req.user.role !== 'admin'
\* The left operand is evaluated first and throws when no owner is recorded.
ownershipCheck(course, a) ==
    IF course.instructorId = NoOwner THEN "throws"
    ELSE IF course.instructorId # a /\ role(a) # "admin" THEN "forbidden"
    ELSE "ok"

----------------------------------------------------------------------------
(* Request bodies of POST / and PUT /:id.  The body is handed to the model  *)
(* as it came: every schema field it carries is written.                    *)

Bodies ==
    { [title |-> "Go"],
      [title |-> "Algebra", isPublished |-> FALSE],
      [title |-> "Algebra", instructorId |-> NoOwner],
      [title |-> "Algebra", rating |-> [average |-> <<5, 1>>, count |-> 3]],
      [title |-> "Algebra", enrolledStudents |-> <<>>] }

\* body('title').trim().isLength({ min: 5, max: 200 })
validTitle(body) == Len(body.title) >= 5 /\ Len(body.title) <= 200

\* body('rating').isInt({ min: 1, max: 5 })
validRating(rating) == rating >= 1 /\ rating <= 5

RatingInputs == {0, 1, 3, 5}

\* $set of the body's fields on a course document.
update(doc, body) ==
    [f \in DOMAIN doc |-> IF f \in DOMAIN body THEN body[f] ELSE doc[f]]

\* User.updateMany({enrolledCourses: id}, {$pull: {enrolledCourses: id, completedCourses: id}})
cascade(us, c) ==
    [a \in DOMAIN us |->
        IF includes(us[a].enrolledCourses, c)
        THEN [us[a] EXCEPT !.enrolledCourses = without(@, c),
                           !.completedCourses = without(@, c)]
        ELSE us[a]]

\* Course.findByIdAndDelete
remove(cs, c) == [x \in DOMAIN cs \ {c} |-> cs[x]]

----------------------------------------------------------------------------
(* Initial state: the seeded accounts and one published course owned by the *)
(* instructor, after some requests have been served: some accounts         *)
(* enrolled, possibly one completion and one review, possibly an unenroll  *)
(* that failed half way.  __v counts the saves that led there.             *)

NewCourse(owner) ==
    [instructorId |-> owner, isPublished |-> TRUE, enrolledStudents |-> <<>>,
     reviews |-> <<>>, rating |-> [average |-> ZeroAverage, count |-> 0],
     price |-> 0, v |-> 0]

\* The price of the seeded course, in cents.
SeedPrice == 9999

InitHistories ==
    { [enrolled |-> <<>>, left |-> {}, gone |-> {}, completed |-> {}, reviews |-> <<>>],
      [enrolled |-> <<"stu">>, left |-> {}, gone |-> {}, completed |-> {}, reviews |-> <<>>],
      [enrolled |-> <<"stu", "ins">>, left |-> {}, gone |-> {}, completed |-> {},
       reviews |-> <<>>],
      [enrolled |-> <<"stu", "ins">>, left |-> {}, gone |-> {}, completed |-> {"stu"},
       reviews |-> <<[user |-> "stu", rating |-> 5]>>],
      \* stu enrolled and then unenrolled, and the unenroll's account save failed
      [enrolled |-> <<>>, left |-> {"stu"}, gone |-> {}, completed |-> {}, reviews |-> <<>>],
      \* stu enrolled, completed the course and then unenrolled
      [enrolled |-> <<"ins">>, left |-> {}, gone |-> {"stu"}, completed |-> {"stu"},
       reviews |-> <<>>] }

Init ==
    \E h \in InitHistories :
        /\ courses = [c \in {"c1"} |->
              [NewCourse("ins") EXCEPT
                 !.enrolledStudents = h.enrolled,
                 !.reviews = h.reviews,
                 !.price = SeedPrice,
                 !.rating = IF h.reviews = <<>> THEN @ ELSE addReviewRating(h.reviews),
                 !.v = Len(h.enrolled) + Len(h.reviews)
                         + 2 * Cardinality(h.left) + 2 * Cardinality(h.gone)]]
        /\ usedIds = {"c1"}
        /\ users = [a \in Accounts |->
              [enrolledCourses |-> IF includes(h.enrolled, a) \/ a \in h.left
                                   THEN <<"c1">> ELSE <<>>,
               completedCourses |-> IF a \in h.completed THEN <<"c1">> ELSE <<>>,
               v |-> (IF includes(h.enrolled, a) \/ a \in h.left THEN 1 ELSE 0)
                     + (IF a \in h.gone THEN 2 ELSE 0)
                     + (IF a \in h.completed THEN 1 ELSE 0)]]
        /\ writeFailed = (h.left # {})
        /\ reqs = [r \in Slots |-> Idle]
        /\ nreq = 0
        /\ last = NoResponse
        /\ prev = NoResponse
        /\ enrollPre = NoLists

----------------------------------------------------------------------------
(* What a handler step does with its request *)

\* The handler awaits again: the request keeps its slot.
Park(r, q) ==
    /\ reqs' = [reqs EXCEPT ![r] = q]
    /\ UNCHANGED <<last, prev, enrollPre>>

\* The handler responds and the request is over.
Finish(r, resp, pre) ==
    /\ reqs' = [reqs EXCEPT ![r] = Idle]
    /\ Send(resp, pre)

\* A save/update threw: the catch block answers 500.
Throw(r, op, q) ==
    /\ writeFailed' = TRUE
    /\ Finish(r, Response(op, q.user, q.course, 500, "Server error"), NoLists)

\* The request is received and answered in the step that received it.
Reject(op, a, c, status, error) ==
    /\ UNCHANGED <<reqs, courses, usedIds, users, writeFailed>>
    /\ Send(Response(op, a, c, status, error), NoLists)

Receive(r) ==
    /\ FreeSlot(r)
    /\ nreq' = nreq + 1

----------------------------------------------------------------------------
(* POST /:id/enroll *)

\* Course.findById and the two guards.
EnrollFind(r, a, c) ==
    /\ Receive(r)
    /\ IF c \notin DOMAIN courses \/ ~courses[c].isPublished
       THEN Reject("enroll", a, c, 404, "Course not found")
       ELSE IF includes(courses[c].enrolledStudents, a)
       THEN Reject("enroll", a, c, 400, "Already enrolled in this course")
       ELSE /\ Park(r, [pc |-> "enrollSaveCourse", user |-> a, course |-> c,
                        cdoc |-> courses[c], pre |-> ListsOf(a, c)])
            /\ UNCHANGED <<courses, usedIds, users, writeFailed>>

\* course.enrollStudent(req.user.id)
EnrollSaveCourse(r) ==
    /\ reqs[r].pc = "enrollSaveCourse"
    /\ LET q == reqs[r]
           items == pushed(q.cdoc.enrolledStudents,
                           enrollStudent(q.cdoc.enrolledStudents, q.user))
       IN \E ok \in WriteOutcomes :
          /\ UNCHANGED <<usedIds, users, nreq>>
          /\ IF ok /\ q.course \in DOMAIN courses
             THEN /\ courses' = [courses EXCEPT
                                   ![q.course] = savePush(@, "enrolledStudents", items)]
                  /\ Park(r, [pc |-> "enrollFindUser", user |-> q.user,
                              course |-> q.course, pre |-> q.pre])
                  /\ UNCHANGED writeFailed
             ELSE /\ Throw(r, "enroll", q)
                  /\ UNCHANGED courses

\* User.findById(req.user.id)
EnrollFindUser(r) ==
    /\ reqs[r].pc = "enrollFindUser"
    /\ Park(r, [pc |-> "enrollSaveUser", user |-> reqs[r].user, course |-> reqs[r].course,
                udoc |-> users[reqs[r].user], pre |-> reqs[r].pre])
    /\ UNCHANGED <<courses, usedIds, users, nreq, writeFailed>>

\* user.enrollInCourse(course._id) and the 200 response
EnrollSaveUser(r) ==
    /\ reqs[r].pc = "enrollSaveUser"
    /\ LET q == reqs[r]
           items == pushed(q.udoc.enrolledCourses,
                           enrollInCourse(q.udoc.enrolledCourses, q.course))
           done == Response("enroll", q.user, q.course, 200, "none")
       IN IF items = <<>>
          THEN /\ Finish(r, done, q.pre)
               /\ UNCHANGED <<courses, usedIds, users, nreq, writeFailed>>
          ELSE \E ok \in WriteOutcomes :
                    /\ UNCHANGED <<courses, usedIds, nreq>>
               /\ IF ok
                  THEN /\ users' = [users EXCEPT
                                      ![q.user] = savePush(@, "enrolledCourses", items)]
                       /\ Finish(r, done, q.pre)
                       /\ UNCHANGED writeFailed
                  ELSE /\ Throw(r, "enroll", q)
                       /\ UNCHANGED users

----------------------------------------------------------------------------
(* DELETE /:id/enroll *)

UnenrollFind(r, a, c) ==
    /\ Receive(r)
    /\ IF c \notin DOMAIN courses
       THEN Reject("unenroll", a, c, 404, "Course not found")
       ELSE IF ~includes(courses[c].enrolledStudents, a)
       THEN Reject("unenroll", a, c, 400, "Not enrolled in this course")
       ELSE /\ Park(r, [pc |-> "unenrollSaveCourse", user |-> a, course |-> c,
                        cdoc |-> courses[c]])
            /\ UNCHANGED <<courses, usedIds, users, writeFailed>>

\* course.unenrollStudent(req.user.id)
UnenrollSaveCourse(r) ==
    /\ reqs[r].pc = "unenrollSaveCourse"
    /\ LET q == reqs[r]
           list == unenrollStudent(q.cdoc.enrolledStudents, q.user)
       IN \E ok \in WriteOutcomes :
          /\ UNCHANGED <<usedIds, users, nreq>>
          /\ IF ok /\ q.course \in DOMAIN courses /\ versionOk(courses[q.course], q.cdoc)
             THEN /\ courses' = [courses EXCEPT
                                   ![q.course] = saveSet(@, "enrolledStudents", list)]
                  /\ Park(r, [pc |-> "unenrollFindUser", user |-> q.user, course |-> q.course])
                  /\ UNCHANGED writeFailed
             ELSE /\ Throw(r, "unenroll", q)
                  /\ UNCHANGED courses

UnenrollFindUser(r) ==
    /\ reqs[r].pc = "unenrollFindUser"
    /\ Park(r, [pc |-> "unenrollSaveUser", user |-> reqs[r].user, course |-> reqs[r].course,
                udoc |-> users[reqs[r].user]])
    /\ UNCHANGED <<courses, usedIds, users, nreq, writeFailed>>

\* user.unenrollFromCourse(course._id) and the 200 response
UnenrollSaveUser(r) ==
    /\ reqs[r].pc = "unenrollSaveUser"
    /\ LET q == reqs[r]
           list == unenrollFromCourse(q.udoc.enrolledCourses, q.course)
           done == Response("unenroll", q.user, q.course, 200, "none")
       IN IF list = q.udoc.enrolledCourses
          THEN /\ Finish(r, done, NoLists)
               /\ UNCHANGED <<courses, usedIds, users, nreq, writeFailed>>
          ELSE \E ok \in WriteOutcomes :
                    /\ UNCHANGED <<courses, usedIds, nreq>>
               /\ IF ok /\ versionOk(users[q.user], q.udoc)
                  THEN /\ users' = [users EXCEPT
                                      ![q.user] = saveSet(@, "enrolledCourses", list)]
                       /\ Finish(r, done, NoLists)
                       /\ UNCHANGED writeFailed
                  ELSE /\ Throw(r, "unenroll", q)
                       /\ UNCHANGED users

----------------------------------------------------------------------------
(* POST /:id/complete *)

CompleteFind(r, a, c) ==
    /\ Receive(r)
    /\ IF c \notin DOMAIN courses
       THEN Reject("complete", a, c, 404, "Course not found")
       ELSE IF ~includes(courses[c].enrolledStudents, a)
       THEN Reject("complete", a, c, 400, "Must be enrolled to complete this course")
       ELSE /\ Park(r, [pc |-> "completeFindUser", user |-> a, course |-> c])
            /\ UNCHANGED <<courses, usedIds, users, writeFailed>>

\* User.findById and the already-completed guard
CompleteFindUser(r) ==
    /\ reqs[r].pc = "completeFindUser"
    /\ LET q == reqs[r] IN
       IF includes(users[q.user].completedCourses, q.course)
       THEN Finish(r, Response("complete", q.user, q.course, 400, "Course already completed"),
                   NoLists)
       ELSE Park(r, [pc |-> "completeSaveUser", user |-> q.user, course |-> q.course,
                     udoc |-> users[q.user]])
    /\ UNCHANGED <<courses, usedIds, users, nreq, writeFailed>>

\* user.completeCourse(course._id) and the 200 response
CompleteSaveUser(r) ==
    /\ reqs[r].pc = "completeSaveUser"
    /\ LET q == reqs[r]
           items == pushed(q.udoc.completedCourses,
                           completeCourse(q.udoc.completedCourses, q.course))
       IN \E ok \in WriteOutcomes :
          /\ UNCHANGED <<courses, usedIds, nreq>>
          /\ IF ok
             THEN /\ users' = [users EXCEPT
                                 ![q.user] = savePush(@, "completedCourses", items)]
                  /\ Finish(r, Response("complete", q.user, q.course, 200, "none"), NoLists)
                  /\ UNCHANGED writeFailed
             ELSE /\ Throw(r, "complete", q)
                  /\ UNCHANGED users

----------------------------------------------------------------------------
(* POST /:id/reviews *)

ReviewFind(r, a, c, rating) ==
    /\ Receive(r)
    /\ IF ~validRating(rating)
       THEN Reject("review", a, c, 400, "Rating must be between 1 and 5")
       ELSE IF c \notin DOMAIN courses \/ ~courses[c].isPublished
       THEN Reject("review", a, c, 404, "Course not found")
       ELSE IF ~includes(courses[c].enrolledStudents, a)
       THEN Reject("review", a, c, 400, "Must be enrolled to review this course")
       ELSE /\ Park(r, [pc |-> "reviewSave", user |-> a, course |-> c,
                        cdoc |-> courses[c], rating |-> rating])
            /\ UNCHANGED <<courses, usedIds, users, writeFailed>>

\* course.addReview(req.user.id, rating, comment) and the 200 response
ReviewSave(r) ==
    /\ reqs[r].pc = "reviewSave"
    /\ LET q == reqs[r] IN
       \E ok \in WriteOutcomes :
          /\ UNCHANGED <<usedIds, users, nreq>>
          /\ IF /\ ok
                /\ q.course \in DOMAIN courses
                /\ addReviewReplaces(q.cdoc, q.user) => versionOk(courses[q.course], q.cdoc)
             THEN /\ courses' = [courses EXCEPT
                                   ![q.course] = addReviewSave(@, q.cdoc, q.user, q.rating)]
                  /\ Finish(r, Response("review", q.user, q.course, 200, "none"), NoLists)
                  /\ UNCHANGED writeFailed
             ELSE /\ Throw(r, "review", q)
                  /\ UNCHANGED courses

----------------------------------------------------------------------------
(* POST / *)

\* authorize, the validators, Course.create({...req.body, instructorId: req.user.id})
Create(r, a, body) ==
    /\ Receive(r)
    /\ IF ~authorize({"admin", "instructor"}, a)
       THEN Reject("create", a, "none", 403, "User role is not authorized")
       ELSE IF ~validTitle(body)
       THEN Reject("create", a, "none", 400, "Title must be between 5 and 200 characters")
       ELSE \E ok \in WriteOutcomes, c \in CourseIds \ usedIds :
              /\ UNCHANGED <<reqs, users>>
            /\ IF ok
               THEN /\ courses' = [x \in DOMAIN courses \cup {c} |->
                                     IF x = c
                                     THEN [update(NewCourse(a), body) EXCEPT !.instructorId = a]
                                     ELSE courses[x]]
                    /\ usedIds' = usedIds \cup {c}
                    /\ Send(Response("create", a, c, 201, "none"), NoLists)
                    /\ UNCHANGED writeFailed
               ELSE /\ writeFailed' = TRUE
                    /\ Send(Response("create", a, "none", 500, "Server error"), NoLists)
                    /\ UNCHANGED <<courses, usedIds>>

----------------------------------------------------------------------------
(* PUT /:id *)

\* authorize, the validators, Course.findById and the ownership check
PutFind(r, a, c, body) ==
    /\ Receive(r)
    /\ IF ~authorize({"admin", "instructor"}, a)
       THEN Reject("update", a, c, 403, "User role is not authorized")
       ELSE IF ~validTitle(body)
       THEN Reject("update", a, c, 400, "Invalid value")
       ELSE IF c \notin DOMAIN courses
       THEN Reject("update", a, c, 404, "Course not found")
       ELSE IF ownershipCheck(courses[c], a) = "throws"
       THEN Reject("update", a, c, 500, "Server error")
       ELSE IF ownershipCheck(courses[c], a) = "forbidden"
       THEN Reject("update", a, c, 403, "Not authorized to update this course")
       ELSE /\ Park(r, [pc |-> "putUpdate", user |-> a, course |-> c, body |-> body])
            /\ UNCHANGED <<courses, usedIds, users, writeFailed>>

\* Course.findByIdAndUpdate(req.params.id, req.body, ..) and the 200 response;
\* when the course is gone the update finds nothing and the answer is still 200.
PutUpdate(r) ==
    /\ reqs[r].pc = "putUpdate"
    /\ LET q == reqs[r] IN
       \E ok \in WriteOutcomes :
          /\ UNCHANGED <<usedIds, users, nreq>>
          /\ IF ok
             THEN /\ courses' = IF q.course \in DOMAIN courses
                                THEN [courses EXCEPT ![q.course] = update(@, q.body)]
                                ELSE courses
                  /\ Finish(r, Response("update", q.user, q.course, 200, "none"), NoLists)
                  /\ UNCHANGED writeFailed
             ELSE /\ Throw(r, "update", q)
                  /\ UNCHANGED courses

----------------------------------------------------------------------------
(* DELETE /:id *)

DeleteFind(r, a, c) ==
    /\ Receive(r)
    /\ IF ~authorize({"admin", "instructor"}, a)
       THEN Reject("delete", a, c, 403, "User role is not authorized")
       ELSE IF c \notin DOMAIN courses
       THEN Reject("delete", a, c, 404, "Course not found")
       ELSE IF ownershipCheck(courses[c], a) = "throws"
       THEN Reject("delete", a, c, 500, "Server error")
       ELSE IF ownershipCheck(courses[c], a) = "forbidden"
       THEN Reject("delete", a, c, 403, "Not authorized to delete this course")
       ELSE /\ Park(r, [pc |-> "deleteCascade", user |-> a, course |-> c])
            /\ UNCHANGED <<courses, usedIds, users, writeFailed>>

\* User.updateMany: remove the course from all enrolled users
DeleteCascade(r) ==
    /\ reqs[r].pc = "deleteCascade"
    /\ LET q == reqs[r] IN
       \E ok \in WriteOutcomes :
          /\ UNCHANGED <<courses, usedIds, nreq>>
          /\ IF ok
             THEN /\ users' = cascade(users, q.course)
                  /\ Park(r, [q EXCEPT !.pc = "deleteRemove"])
                  /\ UNCHANGED writeFailed
             ELSE /\ Throw(r, "delete", q)
                  /\ UNCHANGED users

\* Course.findByIdAndDelete and the 200 response
DeleteRemove(r) ==
    /\ reqs[r].pc = "deleteRemove"
    /\ LET q == reqs[r] IN
       \E ok \in WriteOutcomes :
          /\ UNCHANGED <<usedIds, users, nreq>>
          /\ IF ok
             THEN /\ courses' = remove(courses, q.course)
                  /\ Finish(r, Response("delete", q.user, q.course, 200, "none"), NoLists)
                  /\ UNCHANGED writeFailed
             ELSE /\ Throw(r, "delete", q)
                  /\ UNCHANGED courses

----------------------------------------------------------------------------
(* GET /:id/stats *)

StatsFind(r, a, c) ==
    /\ Receive(r)
    /\ IF ~authorize({"admin", "instructor"}, a)
       THEN Reject("stats", a, c, 403, "User role is not authorized")
       ELSE IF c \notin DOMAIN courses
       THEN Reject("stats", a, c, 404, "Course not found")
       ELSE IF ownershipCheck(courses[c], a) = "throws"
       THEN Reject("stats", a, c, 500, "Server error")
       ELSE IF ownershipCheck(courses[c], a) = "forbidden"
       THEN Reject("stats", a, c, 403, "Not authorized to view course statistics")
       ELSE /\ Park(r, [pc |-> "statsCount", user |-> a, course |-> c, cdoc |-> courses[c]])
            /\ UNCHANGED <<courses, usedIds, users, writeFailed>>

\* User.countDocuments({ completedCourses: course._id })
countCompleted(us, c) ==
    Cardinality({a \in DOMAIN us : includes(us[a].completedCourses, c)})

\* ((completedCount / length) * 100).toFixed(2), in hundredths of a percent
toFixed2(completedCount, length) ==
    (2 * 10000 * completedCount + length) \div (2 * length)

\* The stats object, from the course loaded before and the count taken now.
stats(course, completedCount) ==
    [totalEnrolled |-> Len(course.enrolledStudents),
     totalCompleted |-> completedCount,
     completionRate |-> IF Len(course.enrolledStudents) > 0
                        THEN toFixed2(completedCount, Len(course.enrolledStudents))
                        ELSE 0,
     totalReviews |-> course.rating.count,
     revenue |-> course.price * Len(course.enrolledStudents)]

\* User.countDocuments({completedCourses: id}) and the 200 response
StatsCount(r) ==
    /\ reqs[r].pc = "statsCount"
    /\ Finish(r, Response("stats", reqs[r].user, reqs[r].course, 200, "none")
                   @@ [stats |-> stats(reqs[r].cdoc,
                                       countCompleted(users, reqs[r].course))],
              NoLists)
    /\ UNCHANGED <<courses, usedIds, users, nreq, writeFailed>>

----------------------------------------------------------------------------
(* The server *)

Arrive ==
    \E r \in Slots, a \in Accounts :
        \/ \E c \in usedIds :
              \/ EnrollFind(r, a, c)
              \/ UnenrollFind(r, a, c)
              \/ CompleteFind(r, a, c)
              \/ DeleteFind(r, a, c)
              \/ StatsFind(r, a, c)
              \/ \E rating \in RatingInputs : ReviewFind(r, a, c, rating)
              \/ \E body \in Bodies : PutFind(r, a, c, body)
        \/ \E body \in Bodies : Create(r, a, body)

Continue ==
    \E r \in Slots :
        \/ EnrollSaveCourse(r)
        \/ EnrollFindUser(r)
        \/ EnrollSaveUser(r)
        \/ UnenrollSaveCourse(r)
        \/ UnenrollFindUser(r)
        \/ UnenrollSaveUser(r)
        \/ CompleteFindUser(r)
        \/ CompleteSaveUser(r)
        \/ ReviewSave(r)
        \/ PutUpdate(r)
        \/ DeleteCascade(r)
        \/ DeleteRemove(r)
        \/ StatsCount(r)

\* Requests are served concurrently.
Next == Arrive \/ Continue

Spec == Init /\ [][Next]_vars

\* Requests are served one at a time: none arrives while another is in flight.
NextSeq == (AllIdle /\ Arrive) \/ Continue

SeqSpec == Init /\ [][NextSeq]_vars

----------------------------------------------------------------------------
(* Properties *)

Enrolled(a, c) ==
    /\ c \in DOMAIN courses
    /\ includes(courses[c].enrolledStudents, a)
    /\ includes(users[a].enrolledCourses, c)

SameCall(resp, other) == resp.user = other.user /\ resp.course = other.course

AnsweredAtOnce(op) == nreq' = nreq + 1 /\ reqs' = reqs /\ last'.op = op

\* A request arrived and its handler went on to position pc.
Accepted(r, pc) == reqs[r] = Idle /\ reqs'[r].pc = pc

UnenrollOK(resp) == resp.op = "unenroll" /\ resp.status = 200

EnrollThenUnenroll == AllIdle /\ EnrollOK(prev) /\ UnenrollOK(last) /\ SameCall(last, prev)

\* C2 as stated: with requests served one at a time, a successful enroll
\* followed by a successful unenroll of the same account from the same course
\* leaves both lists as they were before the enroll.
C2_Original ==
    EnrollThenUnenroll => ListsOf(last.user, last.course) = enrollPre

NotEnrolledRejected ==
    /\ \A r \in Slots :
          Accepted(r, "unenrollSaveCourse") =>
             includes(courses[reqs'[r].course].enrolledStudents, reqs'[r].user)
    /\ ( /\ AnsweredAtOnce("unenroll")
         /\ last'.course \in DOMAIN courses
         /\ ~includes(courses[last'.course].enrolledStudents, last'.user) )
       => /\ last'.status = 400
          /\ last'.error = "Not enrolled in this course"
          /\ UNCHANGED <<courses, users>>

\* C2 amended: with requests served one at a time, enroll then unenroll leaves
\* both lists as they were before the enroll when the account's enrolledCourses
\* did not hold the course before the enroll; an unenroll of an account that is
\* not in the course's enrolledStudents is answered 400 "Not enrolled" at once
\* and changes neither collection.
C2_UnenrollRestores ==
    /\ [](EnrollThenUnenroll /\ ~includes(enrollPre.enrolledCourses, last.course)
            => ListsOf(last.user, last.course) = enrollPre)
    /\ [][NotEnrolledRejected]_vars

C2_Witness ==
    /\ EnrollThenUnenroll
    /\ ~includes(enrollPre.enrolledCourses, last.course)
    /\ enrollPre.enrolledStudents # <<>>

NoDuplicates(list) == \A i, j \in 1..Len(list) : list[i] = list[j] => i = j

CompleteNotEnrolledRejected ==
    /\ \A r \in Slots :
          Accepted(r, "completeFindUser") =>
             includes(courses[reqs'[r].course].enrolledStudents, reqs'[r].user)
    /\ ( /\ AnsweredAtOnce("complete")
         /\ last'.course \in DOMAIN courses
         /\ ~includes(courses[last'.course].enrolledStudents, last'.user) )
       => /\ last'.status = 400
          /\ last'.error = "Must be enrolled to complete this course"
          /\ UNCHANGED <<courses, users>>

\* The step in which the handler of a complete request that found the account
\* enrolled sends its answer.
CompleteAnswered ==
    \A r \in Slots :
       reqs[r].pc \in {"completeFindUser", "completeSaveUser"} /\ reqs'[r] = Idle =>
          LET a == reqs[r].user
              c == reqs[r].course
              had == includes(users[a].completedCourses, c)
          IN /\ had => /\ last'.status = 400
                       /\ last'.error = "Course already completed"
                       /\ UNCHANGED <<courses, users>>
             /\ ~had => \/ /\ last'.status = 200
                           /\ users'[a].completedCourses
                                 = Append(users[a].completedCourses, c)
                        \/ /\ last'.status = 500
                           /\ writeFailed'
                           /\ UNCHANGED <<courses, users>>

\* C3: with requests served one at a time, a complete request of an account
\* that is not in the course's enrolledStudents is answered 400 "Must be
\* enrolled"; of an enrolled account it is answered 200 and appends the course
\* to completedCourses when the course is not there yet, and is answered 400
\* "Course already completed" and changes nothing when it is; no
\* completedCourses list holds a course twice.
C3_CompleteOnce ==
    /\ [](\A a \in Accounts : NoDuplicates(users[a].completedCourses))
    /\ [][CompleteNotEnrolledRejected /\ CompleteAnswered]_vars

C3_Witness ==
    /\ AllIdle
    /\ last = Response("complete", "ins", "c1", 400, "Course already completed")
    /\ users["ins"].completedCourses = <<"c1">>

Mean(reviews) ==
    IF reviews = <<>> THEN ZeroAverage ELSE Quotient(totalRating(reviews), Len(reviews))

\* C4: in every reachable state every course's rating.count is the length of
\* its review list and its rating.average is the mean of the list's ratings
\* (0 for an empty list).
C4_RatingIsMean ==
    \A c \in DOMAIN courses :
        /\ courses[c].rating.count = Len(courses[c].reviews)
        /\ courses[c].rating.average = Mean(courses[c].reviews)

Authors(reviews) == {reviews[i].user : i \in 1..Len(reviews)}

OneReviewPerAuthor(reviews) ==
    \A i, j \in 1..Len(reviews) : reviews[i].user = reviews[j].user => i = j

\* The step in which a review request that reached addReview is answered 200.
ReviewReplaces ==
    \A r \in Slots :
       reqs[r].pc = "reviewSave" /\ reqs'[r] = Idle /\ last'.status = 200 =>
          LET a == reqs[r].user
              c == reqs[r].course
              old == courses[c]
              new == courses'[c]
          IN /\ new.reviews = Append(SelectSeq(old.reviews, LAMBDA x : x.user # a),
                                      [user |-> a, rating |-> reqs[r].rating])
             /\ new.rating.average = Mean(new.reviews)
             /\ a \in Authors(old.reviews) => new.rating.count = old.rating.count

Rated(a, k) == [user |-> a, rating |-> k]

\* X rates 5, Y rates 3, X rates 1 on a course without reviews.
ReviewExample ==
    \A r \in Slots, x, y \in Accounts :
       reqs[r].pc = "reviewSave" /\ reqs'[r] = Idle /\ last'.status = 200 /\ x # y =>
          LET c == reqs[r].course
              given == <<courses[c].reviews, reqs[r].user, reqs[r].rating>>
              result == <<courses'[c].reviews, courses'[c].rating>>
          IN /\ given = << <<>>, x, 5 >> =>
                result = << <<Rated(x, 5)>>, [average |-> <<5, 1>>, count |-> 1] >>
             /\ given = << <<Rated(x, 5)>>, y, 3 >> =>
                result = << <<Rated(x, 5), Rated(y, 3)>>, [average |-> <<4, 1>>, count |-> 2] >>
             /\ given = << <<Rated(x, 5), Rated(y, 3)>>, x, 1 >> =>
                result = << <<Rated(y, 3), Rated(x, 1)>>, [average |-> <<2, 1>>, count |-> 2] >>

\* C5: with requests served one at a time, no course holds two reviews by one
\* author; a review by an account that already has one removes the old review
\* and appends the new one, leaves rating.count as it was and sets
\* rating.average to the mean of the new list; X rates 5, Y rates 3, X rates 1
\* give {5, 1}, {4, 2}, {2, 2}.
C5_ReplaceOnWrite ==
    /\ [](\A c \in DOMAIN courses : OneReviewPerAuthor(courses[c].reviews))
    /\ [][ReviewReplaces /\ ReviewExample]_vars

\* C6: whenever no request is in flight and no write has failed, an account is
\* in a course's enrolledStudents exactly when the course is in the account's
\* enrolledCourses, for requests served concurrently.
C6_ListsAgree ==
    AllIdle /\ ~writeFailed =>
        \A a \in Accounts, c \in DOMAIN courses :
            includes(courses[c].enrolledStudents, a)
               <=> includes(users[a].enrolledCourses, c)

\* C7: in every reachable state, for requests served concurrently, no
\* enrolledCourses, completedCourses or enrolledStudents list holds an
\* identifier twice.
C7_NoDuplicateReferences ==
    /\ \A a \in Accounts :
          /\ NoDuplicates(users[a].enrolledCourses)
          /\ NoDuplicates(users[a].completedCourses)
    /\ \A c \in DOMAIN courses : NoDuplicates(courses[c].enrolledStudents)

\* C8: after a DELETE of a course answered 200, with requests served one at a
\* time, no account's enrolledCourses or completedCourses holds the course.
C8_DeleteCascades ==
    AllIdle /\ last.op = "delete" /\ last.status = 200 =>
        \A a \in Accounts :
            /\ ~includes(users[a].enrolledCourses, last.course)
            /\ ~includes(users[a].completedCourses, last.course)

OwnerRoutes == {"update", "delete", "stats"}

OwnerRoutePositions == {"putUpdate", "deleteCascade", "statsCount"}

MayManage(a, course) == role(a) = "admin" \/ course.instructorId = a

\* A PUT, DELETE or stats request for an existing course by a caller who is
\* neither an admin nor the course's instructorId.
ForbiddenAnswered ==
    /\ \A r \in Slots :
          (\E pc \in OwnerRoutePositions : Accepted(r, pc)) =>
             MayManage(reqs'[r].user, courses[reqs'[r].course])
    /\ ( /\ \E op \in OwnerRoutes : AnsweredAtOnce(op)
         /\ last'.course \in DOMAIN courses
         /\ ~MayManage(last'.user, courses[last'.course])
         /\ last'.error # "Invalid value" )
       => /\ last'.status = 403
          /\ UNCHANGED <<courses, users>>

\* C9: a well-formed PUT, DELETE or stats request for an existing course by a
\* caller who is neither an admin nor the course's instructorId is answered 403
\* and changes neither collection.
C9_NonOwnerForbidden == [][ForbiddenAnswered]_vars

\* A PUT, DELETE or stats request of an admin for an existing course.
AdminAnswered ==
    /\ ( /\ \E op \in OwnerRoutes : AnsweredAtOnce(op)
         /\ last'.course \in DOMAIN courses
         /\ role(last'.user) = "admin" )
       => last'.error = "Invalid value"
    /\ \A r \in Slots :
          ( /\ reqs[r].pc \in OwnerRoutePositions \cup {"deleteRemove"}
            /\ reqs'[r] = Idle
            /\ role(reqs[r].user) = "admin" )
          => last'.status = 200 \/ (last'.status = 500 /\ writeFailed')

\* C10: a well-formed PUT, DELETE or stats request of an admin for an existing
\* course is answered 200 unless a write fails, whatever the course's
\* instructorId: another account, the admin, or none.
C10_AdminSucceeds == [][AdminAnswered]_vars

\* Membership in a stored reference list.
Member(list, x) == x \in {list[i] : i \in 1..Len(list)}

NotEnrolledToReview == "Must be enrolled to review this course"

\* A review request was answered in the step that received it, for a course
\* that exists and does not list the caller in enrolledStudents.
ReviewByOutsider ==
    /\ AnsweredAtOnce("review")
    /\ last'.course \in DOMAIN courses
    /\ ~Member(courses[last'.course].enrolledStudents, last'.user)

\* C13 as stated: a review request with a rating from 1 to 5 on course C by
\* an account that is not in C.enrolledStudents is answered 400 NotEnrolled
\* and writes nothing.
C13_Original ==
    [][ReviewByOutsider /\ last'.error # "Rating must be between 1 and 5" =>
          /\ last'.status = 400
          /\ last'.error = NotEnrolledToReview
          /\ UNCHANGED <<courses, users>>]_vars

ReviewGuarded ==
    /\ ReviewByOutsider =>
          /\ UNCHANGED <<courses, users>>
          /\ last'.status \in {400, 404}
          /\ last'.status = 404 <=> /\ last'.error = "Course not found"
                                    /\ ~courses[last'.course].isPublished
          /\ ( /\ courses[last'.course].isPublished
               /\ last'.error # "Rating must be between 1 and 5" )
             => last'.status = 400 /\ last'.error = NotEnrolledToReview
    /\ \A r \in Slots :
          Accepted(r, "reviewSave") =>
             Member(courses[reqs'[r].course].enrolledStudents, reqs'[r].user)
    /\ \A c \in DOMAIN courses :
          (c \in DOMAIN courses' /\ courses'[c].reviews # courses[c].reviews
              /\ last'.op = "review")
          => \E r \in Slots : reqs[r].pc = "reviewSave" /\ reqs'[r] = Idle

\* C13 amended: a review request with a rating from 1 to 5 on a published
\* course by an account that is not in its enrolledStudents is answered 400
\* "Must be enrolled to review this course"; with an invalid rating it is
\* answered 400 by the validator and on an unpublished course 404; in every
\* case it writes nothing, and addReview is only reached by a request whose
\* account was in enrolledStudents when the handler checked.
C13_ReviewGuarded == [][ReviewGuarded]_vars

C13_Witness ==
    /\ AllIdle
    /\ last = Response("review", "adm", "c1", 400, NotEnrolledToReview)
    /\ courses["c1"].reviews # <<>>

\* The answer of the handler that was at position pc, sent in this step.
Answers(r, pc) == reqs[r].pc = pc /\ reqs'[r] = Idle

TwoWrites ==
    \A r \in Slots :
       LET a == reqs[r].user
           c == reqs[r].course
       IN /\ Answers(r, "enrollSaveCourse") \/ Answers(r, "unenrollSaveCourse") =>
                last'.status = 500 /\ UNCHANGED <<courses, users>>
          /\ Answers(r, "enrollSaveUser") /\ last'.status # 200 =>
                /\ last'.status = 500
                /\ UNCHANGED <<courses, users>>
                /\ Member(courses[c].enrolledStudents, a)
                /\ ~Member(users[a].enrolledCourses, c)
          /\ Answers(r, "unenrollSaveUser") /\ last'.status # 200 =>
                /\ last'.status = 500
                /\ UNCHANGED <<courses, users>>
                /\ ~Member(courses[c].enrolledStudents, a)
                /\ Member(users[a].enrolledCourses, c)

\* C18: with requests served one at a time, an enroll or unenroll whose course
\* write fails is answered 500 and leaves both collections as they were; one
\* whose course write succeeded and whose account write fails is answered 500
\* and nothing is rolled back: after the enroll the account is in
\* enrolledStudents and the course is not in enrolledCourses, after the
\* unenroll the account is not in enrolledStudents and the course is still in
\* enrolledCourses.
C18_TwoWritesNoRollback == [][TwoWrites]_vars

C18_Witness ==
    /\ AllIdle
    /\ last.op = "enroll" /\ last.status = 500
    /\ last.course \in DOMAIN courses
    /\ Member(courses[last.course].enrolledStudents, last.user)
    /\ ~Member(users[last.user].enrolledCourses, last.course)
    /\ nreq = 1

UnenrollPositions == {"unenrollSaveCourse", "unenrollFindUser", "unenrollSaveUser"}

\* The step belongs to an unenroll request.
UnenrollStep ==
    \/ AnsweredAtOnce("unenroll")
    \/ \E r \in Slots : Accepted(r, "unenrollSaveCourse")
    \/ \E r \in Slots : reqs[r].pc \in UnenrollPositions /\ reqs'[r] # reqs[r]

CompletionKept ==
    /\ UnenrollStep =>
          \A a \in Accounts : users'[a].completedCourses = users[a].completedCourses
    /\ \A a \in Accounts :
          users'[a].completedCourses # users[a].completedCourses =>
             \/ /\ last'.op = "complete" /\ last'.status = 200 /\ last'.user = a
                /\ users'[a].completedCourses
                      = Append(users[a].completedCourses, last'.course)
             \/ \E r \in Slots : reqs[r].pc = "deleteCascade" /\ reqs'[r].pc = "deleteRemove"
    /\ ( /\ AnsweredAtOnce("complete")
         /\ last'.course \in DOMAIN courses
         /\ ~Member(courses[last'.course].enrolledStudents, last'.user) )
       => /\ last'.status = 400
          /\ last'.error = "Must be enrolled to complete this course"
    /\ \A r \in Slots :
          ( /\ reqs[r].pc = "completeFindUser" /\ reqs'[r] # reqs[r]
            /\ Member(users[reqs[r].user].completedCourses, reqs[r].course) )
          => /\ last' = Response("complete", reqs[r].user, reqs[r].course, 400,
                                 "Course already completed")
             /\ UNCHANGED <<courses, users>>

\* C19: with requests served one at a time, no step of an unenroll changes any
\* completedCourses list, and a list changes only when a complete answered 200
\* appends to it or a course delete pulls from it; so after complete, unenroll
\* and a new enroll the course is still in completedCourses and a further
\* complete is answered 400 "Course already completed", and a complete by an
\* account that is not in enrolledStudents is answered 400 "Must be enrolled".
C19_CompletionPermanent == [][CompletionKept]_vars

C19_Witness ==
    /\ AllIdle
    /\ EnrollOK(prev)
    /\ ~Member(enrollPre.enrolledStudents, prev.user)
    /\ last = Response("complete", prev.user, prev.course, 400, "Course already completed")

\* C20: whenever no request is in flight, for requests served concurrently,
\* every course in an account's enrolledCourses or completedCourses is a
\* course of the collection: none refers to a deleted course.
C20_NoDanglingReference ==
    AllIdle =>
        \A a \in Accounts :
            /\ \A i \in 1..Len(users[a].enrolledCourses) :
                  users[a].enrolledCourses[i] \in DOMAIN courses
            /\ \A i \in 1..Len(users[a].completedCourses) :
                  users[a].completedCourses[i] \in DOMAIN courses

----------------------------------------------------------------------------
(* The middleware and the read-only routes.  Nothing here writes, so the   *)
(* requests are served one at a time and a handler's reads are one step.   *)

\* An Authorization header is a scheme and what split(' ')[1] finds after it;
\* a JWT is known by its subject, its signature and its expiry.
NoToken == [text |-> "undefined", sub |-> "none", signed |-> FALSE, expired |-> FALSE]

EmptyToken == [text |-> "", sub |-> "none", signed |-> FALSE, expired |-> FALSE]

Jwt(sub, signed, expired) ==
    [text |-> "jwt", sub |-> sub, signed |-> signed, expired |-> expired]

NoHeader == [scheme |-> "none", token |-> NoToken]

Headers ==
    { NoHeader,
      [scheme |-> "Basic", token |-> Jwt("stu", TRUE, FALSE)],
      [scheme |-> "Bearer", token |-> NoToken],
      [scheme |-> "Bearer", token |-> EmptyToken],
      [scheme |-> "Bearer", token |-> Jwt("stu", TRUE, FALSE)],
      [scheme |-> "Bearer", token |-> Jwt("stu", FALSE, FALSE)],
      [scheme |-> "Bearer", token |-> Jwt("stu", TRUE, TRUE)],
      [scheme |-> "Bearer", token |-> Jwt("ins", TRUE, FALSE)] }

\* req.headers.authorization && req.headers.authorization.startsWith('Bearer')
bearer(header) == header.scheme = "Bearer"

\* req.headers.authorization.split(' ')[1]
tokenOf(header) == header.token

verify_NoExpiry(token) ==
    IF token.text = "jwt" /\ token.signed THEN token.sub ELSE "throws"

\* jwt.verify(token, process.env.JWT_SECRET): decoded.id, or it throws
verify(token) ==
    IF token.text = "jwt" /\ token.signed /\ ~token.expired THEN token.sub ELSE "throws"

\* !token
falsy(token) == token.text \in {"undefined", ""}

\* User.findById(decoded.id): the account id, or null
findUser(us, id) == IF id \in DOMAIN us THEN id ELSE "null"

\* What protect does with a request: how many responses it sends, how often it
\* calls next(), and the req.user it leaves.
protect(header, us) ==
    LET token == IF bearer(header) THEN tokenOf(header) ELSE NoToken
        decoded == verify(token)
        user == findUser(us, decoded)
        denied(error) == [returned |-> TRUE, sent |-> 1, handled |-> 0, status |-> 401,
                          error |-> error, user |-> "undefined"]
        inTry == IF ~bearer(header)
                 THEN [returned |-> FALSE, sent |-> 0, handled |-> 0, status |-> 0,
                       error |-> "none", user |-> "undefined"]
                 ELSE IF decoded = "throws" THEN denied("Not authorized, token failed")
                 ELSE IF user = "null" THEN denied("User not found")
                 ELSE IF ~us[user].isActive THEN denied("Account is deactivated")
                 ELSE [returned |-> FALSE, sent |-> 0, handled |-> 1, status |-> 0,
                       error |-> "none", user |-> user]
    IN IF inTry.returned THEN inTry
       ELSE IF falsy(token)
       THEN [inTry EXCEPT !.sent = @ + 1, !.status = 401, !.error = "Not authorized, no token"]
       ELSE inTry

\* What optionalAuth leaves in req.user before it calls next().
optionalAuth(header, us) ==
    IF ~bearer(header) THEN "undefined"
    ELSE IF verify(tokenOf(header)) = "throws" THEN "null"
    ELSE findUser(us, verify(tokenOf(header)))

\* The catalogue: course i was the i-th to be created; every fourth one is
\* unpublished and every second one is featured.
CatalogIds ==
    <<"c1", "c2", "c3", "c4", "c5", "c6", "c7", "c8",
      "c9", "c10", "c11", "c12", "c13", "c14", "c15">>

Categories == <<"Design", "Music", "Programming">>

CatalogSizes == {0, 2, 5, 15}

CatalogCourse(i) ==
    [createdAt |-> i,
     isPublished |-> (i % 4 # 0),
     isFeatured |-> (i % 2 = 0),
     category |-> Categories[(i % 3) + 1],
     instructorId |-> "ins",
     enrolledStudents |-> IF i = 1 THEN <<"stu">> ELSE <<>>]

Catalog(n) ==
    [c \in {CatalogIds[i] : i \in 1..n} |->
        CatalogCourse(CHOOSE i \in 1..n : CatalogIds[i] = c)]

\* A string Mongoose can cast to an ObjectId.
isObjectId(id) == \E i \in 1..Len(CatalogIds) : CatalogIds[i] = id

\* The account documents: stu may have been deactivated or deleted.
AccountStates == {"active", "deactivated", "deleted"}

AccountsWhen(stuState, cs) ==
    [a \in IF stuState = "deleted" THEN Accounts \ {"stu"} ELSE Accounts |->
        [isActive |-> (a # "stu" \/ stuState = "active"),
         enrolledCourses |-> IF a = "stu" /\ "c1" \in DOMAIN cs THEN <<"c1">> ELSE <<>>,
         completedCourses |-> <<>>,
         v |-> IF a = "stu" /\ "c1" \in DOMAIN cs THEN 1 ELSE 0]]

\* .sort('-createdAt') / .sort('createdAt') of a set of course ids
RECURSIVE newestFirst(_, _)
newestFirst(cs, ids) ==
    IF ids = {} THEN <<>>
    ELSE LET newest == CHOOSE x \in ids : \A y \in ids : cs[y].createdAt <= cs[x].createdAt
         IN <<newest>> \o newestFirst(cs, ids \ {newest})

reverse(list) == [i \in 1..Len(list) |-> list[Len(list) + 1 - i]]

sorted(cs, ids, sort) ==
    IF sort = "createdAt" THEN reverse(newestFirst(cs, ids)) ELSE newestFirst(cs, ids)

\* .skip(n).limit(m)
skipLimit(list, skipped, limit) ==
    SubSeq(list, skipped + 1, IF skipped + limit < Len(list) THEN skipped + limit ELSE Len(list))

FeaturedLimit == 6

\* Course.getFeatured
getFeatured(cs) ==
    skipLimit(newestFirst(cs, {c \in DOMAIN cs : cs[c].isFeatured /\ cs[c].isPublished}),
         0, FeaturedLimit)

getByCategory_All(cs, category) ==
    newestFirst(cs, {c \in DOMAIN cs : cs[c].category = category})

\* Course.getByCategory (the catalogue's courses all have the same rating)
getByCategory(cs, category) ==
    newestFirst(cs, {c \in DOMAIN cs : cs[c].category = category /\ cs[c].isPublished})

\* A query parameter: absent, or an integer.
NoParam == [given |-> FALSE, value |-> 0]

Param(n) == [given |-> TRUE, value |-> n]

DefaultPage == 1

DefaultLimit == 12

MaxLimit == 50

PageInputs == {NoParam, Param(0), Param(1), Param(2), Param(4)}

LimitInputs == {NoParam, Param(0), Param(5), Param(50), Param(51)}

Queries ==
    [page : PageInputs, limit : LimitInputs, category : {"", "Design"},
     sort : {"-createdAt", "createdAt"}]

NoQuery == [page |-> NoParam, limit |-> NoParam, category |-> "", sort |-> "-createdAt"]

\* query('page').optional().isInt({ min: 1 })
validPage(p) == ~p.given \/ p.value >= 1

\* query('limit').optional().isInt({ min: 1, max: 50 })
validLimit(l) == ~l.given \/ (l.value >= 1 /\ l.value <= MaxLimit)

\* errors.array().map(err => err.msg).join(', ')
queryErrors(q) ==
    IF ~validPage(q.page) /\ ~validLimit(q.limit)
    THEN "Page must be a positive integer, Limit must be between 1 and 50"
    ELSE IF ~validPage(q.page) THEN "Page must be a positive integer"
    ELSE IF ~validLimit(q.limit) THEN "Limit must be between 1 and 50"
    ELSE "none"

\* const { page = 1, limit = 12 } = req.query
pageOf(q) == IF q.page.given THEN q.page.value ELSE DefaultPage

limitOf(q) == IF q.limit.given THEN q.limit.value ELSE DefaultLimit

\* let query = { isPublished: true }; if (category) query.category = category
listQuery(cs, q) ==
    {c \in DOMAIN cs : cs[c].isPublished /\ (q.category # "" => cs[c].category = q.category)}

skip_ZeroIndexed(pageNo, limit) == pageNo * limit

\* (page - 1) * limit
skip(pageNo, limit) == (pageNo - 1) * limit

\* Course.find(query).sort(sort).skip((page - 1) * limit).limit(parseInt(limit))
listFind(cs, q) ==
    skipLimit(sorted(cs, listQuery(cs, q), q.sort), skip(pageOf(q), limitOf(q)), limitOf(q))

\* Math.ceil(total / limit)
ceil(total, limit) == (total + limit - 1) \div limit

\* The GET routes of the course router in the order they are registered;
\* Express hands a request to the first route whose path matches.
GetRoutes ==
    << [pattern |-> <<>>, handler |-> "list"],
       [pattern |-> <<":id">>, handler |-> "getCourse"],
       [pattern |-> <<"enrolled">>, handler |-> "enrolled"],
       [pattern |-> <<"featured">>, handler |-> "featured"],
       [pattern |-> <<"category", ":category">>, handler |-> "category"],
       [pattern |-> <<":id", "stats">>, handler |-> "stats"] >>

RouteParams == {":id", ":category"}

matches(pattern, path) ==
    /\ Len(pattern) = Len(path)
    /\ \A i \in 1..Len(pattern) : pattern[i] \in RouteParams \/ pattern[i] = path[i]

dispatch(path) ==
    LET hits == {i \in 1..Len(GetRoutes) : matches(GetRoutes[i].pattern, path)}
    IN IF hits = {} THEN "none"
       ELSE GetRoutes[CHOOSE i \in hits : \A j \in hits : i <= j].handler

Paths ==
    { <<>>, <<"c1">>, <<"c4">>, <<"featured">>, <<"enrolled">>,
      <<"category", "Design">>, <<"category", "Music">> }

\* A response of these routes: what was asked and what res.json carried.
Reply(op, status, error) ==
    [op |-> op, status |-> status, error |-> error,
     header |-> NoHeader, path |-> <<>>, query |-> NoQuery,
     caller |-> "undefined", isEnrolled |-> FALSE,
     courses |-> <<>>, total |-> 0, pages |-> 0, currentPage |-> 0,
     sent |-> 1, handled |-> 0]

\* The request is answered in the step that received it.
Answer(resp) ==
    /\ UNCHANGED <<reqs, courses, usedIds, users, writeFailed>>
    /\ Send(resp, NoLists)

\* GET /:id after optionalAuth: Course.findById and the response
getCourse(cs, id, caller) ==
    IF ~isObjectId(id) THEN Reply("getCourse", 500, "Server error while fetching course")
    ELSE IF id \notin DOMAIN cs \/ ~cs[id].isPublished
    THEN Reply("getCourse", 404, "Course not found")
    ELSE [Reply("getCourse", 200, "none") EXCEPT
            !.isEnrolled = caller \notin {"undefined", "null"}
                           /\ includes(cs[id].enrolledStudents, caller)]

\* GET requests to the course router: the route is chosen, its middleware
\* runs, and the handler runs up to its second database operation.
CoursesGet(r, header, path, q) ==
    /\ Receive(r)
    /\ LET handler == dispatch(path) IN
       CASE handler = "list" ->
              IF queryErrors(q) # "none"
              THEN Answer([Reply("list", 400, queryErrors(q)) EXCEPT !.query = q])
              ELSE /\ Park(r, [pc |-> "listCount", query |-> q, found |-> listFind(courses, q)])
                   /\ UNCHANGED <<courses, usedIds, users, writeFailed>>
         [] handler = "getCourse" ->
              IF bearer(header) /\ verify(tokenOf(header)) # "throws"
              THEN /\ Park(r, [pc |-> "getCourse", header |-> header, path |-> path,
                               caller |-> optionalAuth(header, users)])
                   /\ UNCHANGED <<courses, usedIds, users, writeFailed>>
              ELSE Answer([getCourse(courses, path[1], optionalAuth(header, users))
                             EXCEPT !.header = header, !.path = path,
                                    !.caller = optionalAuth(header, users)])
         [] handler = "featured" ->
              Answer([Reply("featured", 200, "none") EXCEPT
                        !.path = path, !.courses = getFeatured(courses)])
         [] handler = "category" ->
              Answer([Reply("category", 200, "none") EXCEPT
                        !.path = path, !.courses = getByCategory(courses, path[2])])

\* Course.countDocuments(query) and the 200 response of GET /
ListCount(r) ==
    /\ reqs[r].pc = "listCount"
    /\ LET q == reqs[r].query
           total == Cardinality(listQuery(courses, q))
       IN Finish(r, [Reply("list", 200, "none") EXCEPT
                       !.query = q, !.courses = reqs[r].found, !.total = total,
                       !.pages = ceil(total, limitOf(q)), !.currentPage = pageOf(q)],
                 NoLists)
    /\ UNCHANGED <<courses, usedIds, users, nreq, writeFailed>>

\* Course.findById and the response of GET /:id for a caller whose token verified
GetCourse(r) ==
    /\ reqs[r].pc = "getCourse"
    /\ Finish(r, [getCourse(courses, reqs[r].path[1], reqs[r].caller) EXCEPT
                    !.header = reqs[r].header, !.path = reqs[r].path,
                    !.caller = reqs[r].caller],
              NoLists)
    /\ UNCHANGED <<courses, usedIds, users, nreq, writeFailed>>

\* GET /api/auth/me: protect, and the handler up to its User.findById
MeGet(r, header) ==
    /\ Receive(r)
    /\ LET p == protect(header, users) IN
       IF p.handled = 0
       THEN Answer([Reply("me", p.status, p.error) EXCEPT
                      !.header = header, !.sent = p.sent, !.handled = 0])
       ELSE /\ Park(r, [pc |-> "me", header |-> header, caller |-> p.user,
                        sent |-> p.sent, handled |-> p.handled])
            /\ UNCHANGED <<courses, usedIds, users, writeFailed>>

\* User.findById(req.user.id) and the 200 response of GET /api/auth/me
Me(r) ==
    /\ reqs[r].pc = "me"
    /\ Finish(r, [Reply("me", 200, "none") EXCEPT
                    !.header = reqs[r].header, !.caller = reqs[r].caller,
                    !.sent = reqs[r].sent + 1, !.handled = reqs[r].handled],
              NoLists)
    /\ UNCHANGED <<courses, usedIds, users, nreq, writeFailed>>

BrowseInit ==
    \E n \in CatalogSizes, stuState \in AccountStates :
        /\ courses = Catalog(n)
        /\ usedIds = DOMAIN Catalog(n)
        /\ users = AccountsWhen(stuState, Catalog(n))
        /\ writeFailed = FALSE
        /\ reqs = [r \in Slots |-> Idle]
        /\ nreq = 0
        /\ last = NoResponse
        /\ prev = NoResponse
        /\ enrollPre = NoLists

\* Only GET / reads the query string and only GET /:id reads the header.
BrowseArrive ==
    \E r \in Slots :
        \/ \E path \in Paths :
              \E header \in IF dispatch(path) = "getCourse" THEN Headers ELSE {NoHeader},
                 q \in IF dispatch(path) = "list" THEN Queries ELSE {NoQuery} :
                 CoursesGet(r, header, path, q)
        \/ \E header \in Headers : MeGet(r, header)

BrowseContinue ==
    \E r \in Slots :
        \/ ListCount(r)
        \/ GetCourse(r)
        \/ Me(r)

BrowseNext == (AllIdle /\ BrowseArrive) \/ BrowseContinue

BrowseSpec == BrowseInit /\ [][BrowseNext]_vars

----------------------------------------------------------------------------
(* Properties of the middleware and the read-only routes *)

TokenVerifies(header) ==
    /\ header.scheme = "Bearer"
    /\ header.token.text = "jwt"
    /\ header.token.signed
    /\ ~header.token.expired

\* The token verifies, its account exists and the account is active.
Admitted(header) ==
    /\ TokenVerifies(header)
    /\ header.token.sub \in DOMAIN users
    /\ users[header.token.sub].isActive

ProtectAdmitsOnce ==
    /\ last.op = "me" =>
          /\ last.sent = 1
          /\ last.handled = IF Admitted(last.header) THEN 1 ELSE 0
          /\ Admitted(last.header) => last.status = 200 /\ last.caller = last.header.token.sub
          /\ ~Admitted(last.header) => last.status = 401
    /\ \A r \in Slots :
          reqs[r].pc = "me" =>
             Admitted(reqs[r].header) /\ reqs[r].handled = 1 /\ reqs[r].sent = 0

\* C11: a request to a protected route reaches the handler, once, exactly
\* when its bearer token verifies and the account it names exists and is
\* active; otherwise it is answered 401, once, the handler does not run and
\* neither collection changes.
C11_ProtectAdmitsOnce ==
    /\ []ProtectAdmitsOnce
    /\ [][last'.op = "me" /\ last'.status = 401 => UNCHANGED <<courses, users>>]_vars

C11_Witness ==
    /\ last.op = "me"
    /\ last.status = 401
    /\ last.error = "Account is deactivated"
    /\ TokenVerifies(last.header)

\* C12: GET /:id is never answered 401, and a request that protect would
\* refuse is served without a caller: isEnrolled is false.
C12_OptionalAuthAnonymous ==
    last.op = "getCourse" =>
        /\ last.status # 401
        /\ ~Admitted(last.header) =>
              /\ last.caller \in {"undefined", "null"}
              /\ ~last.isEnrolled

ListOps == {"list", "featured", "category"}

AllPublished(list) == \A i \in 1..Len(list) : courses[list[i]].isPublished

\* C14: every course in a response of the list, featured and by-category
\* queries is published, and so is every course the three queries select in
\* any state of the catalogue.
C14_OnlyPublishedListed ==
    /\ last.op \in ListOps => AllPublished(last.courses)
    /\ AllPublished(getFeatured(courses))
    /\ \A i \in 1..Len(Categories) : AllPublished(getByCategory(courses, Categories[i]))
    /\ \A q \in Queries : \A c \in listQuery(courses, q) : courses[c].isPublished

C14_Witness ==
    /\ last.op = "category"
    /\ last.courses # <<>>
    /\ \E c \in DOMAIN courses :
          ~courses[c].isPublished /\ courses[c].category = last.path[2]

BrowseOps == ListOps \cup {"getCourse", "me"}

\* C15: GET /featured and GET /category/<category> are answered 200 by their
\* own handlers.
C15_FeaturedReachable ==
    last.op \in BrowseOps /\ last.path # <<>> =>
        /\ last.path = <<"featured">> => last.op = "featured" /\ last.status = 200
        /\ last.path[1] = "category" /\ Len(last.path) = 2 =>
              last.op = "category" /\ last.status = 200

\* The published courses a list request selects, by the request's category.
Selected(q) ==
    {c \in DOMAIN courses :
        courses[c].isPublished /\ (q.category # "" => courses[c].category = q.category)}

\* The courses of Selected(q) listed before c in the requested order.
Before(q, c) ==
    {d \in Selected(q) :
        IF q.sort = "-createdAt"
        THEN courses[d].createdAt > courses[c].createdAt
        ELSE courses[d].createdAt < courses[c].createdAt}

RequestedPage(q) == IF q.page = NoParam THEN 1 ELSE q.page.value

Min(a, b) == IF a < b THEN a ELSE b

Max(a, b) == IF a > b THEN a ELSE b

\* The response holds the positions (page - 1) * size + 1 .. page * size of
\* the selected courses, the total and the number of pages of that size.
IsPageOf(resp, pageNo, size) ==
    LET total == Cardinality(Selected(resp.query))
    IN  /\ resp.status = 200
        /\ resp.total = total
        /\ resp.currentPage = pageNo
        /\ resp.pages * size >= total
        /\ (resp.pages - 1) * size < total
        /\ Len(resp.courses) = Max(0, Min(size, total - (pageNo - 1) * size))
        /\ \A k \in 1..Len(resp.courses) :
              /\ resp.courses[k] \in Selected(resp.query)
              /\ Cardinality(Before(resp.query, resp.courses[k])) = (pageNo - 1) * size + k - 1

\* The statement as written: the requested limit is clamped to 1..50.
C16_Original ==
    last.op = "list" /\ RequestedPage(last.query) >= 1 =>
        IsPageOf(last, RequestedPage(last.query),
                 IF last.query.limit = NoParam THEN 12
                 ELSE Max(1, Min(50, last.query.limit.value)))

LimitAccepted(q) == q.limit = NoParam \/ (q.limit.value >= 1 /\ q.limit.value <= 50)

\* Page 2 with limit 5 over 12 published courses, newest first.
PageTwoOfTwelve ==
    /\ last.op = "list"
    /\ last.query = [page |-> Param(2), limit |-> Param(5), category |-> "", sort |-> "-createdAt"]
    /\ Cardinality(Selected(last.query)) = 12

\* C16: a list request whose limit is absent (12) or within 1..50 and whose
\* page is absent (1) or at least 1 is answered 200 with the positions
\* (page - 1) * limit + 1 .. page * limit of the published courses it
\* selects, in the requested order, and totalPages = ceil(total / limit);
\* any other request is answered 400 without items. Page 2 with limit 5 over
\* 12 published courses is the 6th to 10th newest and totalPages 3.
C16_Pagination ==
    /\ last.op = "list" =>
          IF LimitAccepted(last.query) /\ RequestedPage(last.query) >= 1
          THEN IsPageOf(last, RequestedPage(last.query),
                        IF last.query.limit = NoParam THEN 12 ELSE last.query.limit.value)
          ELSE last.status = 400 /\ last.courses = <<>>
    /\ PageTwoOfTwelve =>
          last.courses = <<"c9", "c7", "c6", "c5", "c3">> /\ last.pages = 3

C16_Witness == PageTwoOfTwelve /\ last.status = 200 /\ Len(last.courses) = 5

----------------------------------------------------------------------------
(* The auth router: POST /signup, POST /login, PUT /profile, PUT /password *)

\* An email address as the validators see it: the name before the @, whether
\* it is written with a capital letter, whether an @domain follows, and the
\* length of the last label of the domain.
Address(name, capital, tld) == [name |-> name, capital |-> capital, at |-> TRUE, tld |-> tld]

Emails ==
    {Address("demo", FALSE, 3), Address("demo", TRUE, 3),
     Address("new", FALSE, 3), Address("new", FALSE, 4),
     [name |-> "new", capital |-> FALSE, at |-> FALSE, tld |-> 0]}

\* body('email').isEmail()
isEmail(email) == email.at

\* .normalizeEmail(): the address in lower case
normalizeEmail(email) == [email EXCEPT !.capital = FALSE]

\* match: /^\w+([.-]?\w+)*@\w+([.-]?\w+)*(\.\w{2,3})+$/
matchesSchema(email) == email.at /\ email.tld \in 2..3

\* lowercase: true
lowercase(email) == [email EXCEPT !.capital = FALSE]

\* User.findOne({ email })
findOne(us, email) ==
    IF \E a \in DOMAIN us : us[a].email = email
    THEN CHOOSE a \in DOMAIN us : us[a].email = email
    ELSE "null"

\* The unique index on email: no other document holds the value.
uniqueEmail(us, id, email) == \A a \in DOMAIN us : a # id => us[a].email # email

NewUserIds == <<"u1", "u2", "u3", "u4">>

\* The _id of a new document
newUserId(us) ==
    NewUserIds[CHOOSE i \in 1..Len(NewUserIds) :
                  /\ NewUserIds[i] \notin DOMAIN us
                  /\ \A j \in 1..(i - 1) : NewUserIds[j] \in DOMAIN us]

Passwords == {"secret1", "secret2"}

\* bcrypt.hash(this.password, salt)
hash(password) == [bcrypt |-> password]

\* bcrypt.compare(candidatePassword, this.password)
comparePassword(candidatePassword, password) == hash(candidatePassword) = password

\* The schema's defaults (email and password are required and have none).
UserDefaults ==
    [role |-> "student", isActive |-> TRUE, emailVerified |-> FALSE, lastLogin |-> 0,
     bio |-> "", enrolledCourses |-> <<>>, completedCourses |-> <<>>, v |-> 0]

UserPaths == DOMAIN UserDefaults \cup {"email", "password"}

\* User.create(fields): the paths given, the defaults for the others; the
\* email setter and the pre-save hook have run.
NewUser(fields) ==
    LET doc == [f \in UserPaths |->
                  IF f \in DOMAIN fields THEN fields[f] ELSE UserDefaults[f]]
    IN [doc EXCEPT !.email = lowercase(@), !.password = hash(@)]

\* sampleUsers: the demo account
SeededUsers ==
    [a \in {"demo"} |->
        NewUser([email |-> Address("demo", FALSE, 3), password |-> "secret1"])]

NoUsers ==
    [a \in {} |-> NewUser([email |-> Address("demo", FALSE, 3), password |-> "secret1"])]

pick_All(body, keys) == body

\* const { name, email, password } = req.body / the allowedFields loop
pick(body, keys) == [f \in DOMAIN body \cap keys |-> body[f]]

SignupFields == {"name", "email", "password"}

allowedFields == {"name", "bio", "avatar", "socialLinks"}

\* Request bodies of POST /signup: the three fields, and fields beyond them.
SignupBodies ==
    {[email |-> e, password |-> "secret1"] : e \in Emails}
    \cup {[email |-> Address("new", FALSE, 3), password |-> "secret1",
           role |-> "admin", emailVerified |-> TRUE]}

\* Request bodies of PUT /profile
ProfileBodies ==
    {[email |-> e] : e \in Emails}
    \cup {[bio |-> "hi"], [bio |-> "hi", role |-> "admin"], [isActive |-> FALSE]}

\* document.save(): the paths that were assigned a new value are sent.
saveModified(stored, loaded, local) ==
    [f \in DOMAIN stored |-> IF local[f] # loaded[f] THEN local[f] ELSE stored[f]]

AuthReply(op, body, status, error) ==
    [op |-> op, body |-> body, status |-> status, error |-> error,
     user |-> "none", token |-> NoToken]

\* The validators, User.findOne and the duplicate check of signup
SignupPost(r, body) ==
    /\ Receive(r)
    /\ UNCHANGED <<courses, usedIds, users, writeFailed>>
    /\ IF ~isEmail(body.email)
       THEN /\ Send(AuthReply("signup", body, 400, "Please enter a valid email"), NoLists)
            /\ UNCHANGED reqs
       ELSE IF findOne(users, normalizeEmail(body.email)) # "null"
       THEN /\ Send(AuthReply("signup", body, 400, "User already exists with this email"),
                    NoLists)
            /\ UNCHANGED reqs
       ELSE Park(r, [pc |-> "create", email |-> normalizeEmail(body.email), raw |-> body,
                     body |-> [body EXCEPT !.email = normalizeEmail(@)]])

\* A validation error, a duplicate key or a lost connection: the catch block
AuthThrow(r, op, error, failed) ==
    /\ writeFailed' = (writeFailed \/ failed)
    /\ Finish(r, AuthReply(op, reqs[r].raw, 500, error), NoLists)
    /\ UNCHANGED users

\* User.create({ name, email, password })
SignupCreate(r) ==
    /\ reqs[r].pc = "create"
    /\ UNCHANGED <<courses, usedIds, nreq>>
    /\ IF ~matchesSchema(reqs[r].email) \/ ~uniqueEmail(users, "none", lowercase(reqs[r].email))
       THEN AuthThrow(r, "signup", "Server error during registration", FALSE)
       ELSE \E ok \in WriteOutcomes :
              IF ok
              THEN LET id == newUserId(users) IN
                   /\ users' = [a \in DOMAIN users \cup {id} |->
                                  IF a = id THEN NewUser(pick(reqs[r].body, SignupFields))
                                  ELSE users[a]]
                   /\ Park(r, [reqs[r] EXCEPT !.pc = "lastLogin"] @@ [id |-> id])
                   /\ UNCHANGED writeFailed
              ELSE AuthThrow(r, "signup", "Server error during registration", TRUE)

\* generateToken, user.updateLastLogin() and the 201 response
SignupLastLogin(r) ==
    /\ reqs[r].pc = "lastLogin"
    /\ UNCHANGED <<courses, usedIds, nreq>>
    /\ \E ok \in WriteOutcomes :
          IF ok
          THEN /\ users' = [users EXCEPT ![reqs[r].id].lastLogin = nreq]
               /\ Finish(r, [AuthReply("signup", reqs[r].raw, 201, "none") EXCEPT
                               !.user = reqs[r].id,
                               !.token = Jwt(reqs[r].id, TRUE, FALSE)],
                         NoLists)
               /\ UNCHANGED writeFailed
          ELSE AuthThrow(r, "signup", "Server error during registration", TRUE)

\* POST /login: the validators, User.findOne, the activity check and
\* comparePassword
LoginPost(r, email, password) ==
    /\ Receive(r)
    /\ UNCHANGED <<courses, usedIds, users, writeFailed>>
    /\ LET body == [email |-> email, password |-> password]
           id == findOne(users, normalizeEmail(email))
           refused(status, error) ==
              /\ Send(AuthReply("login", body, status, error), NoLists)
              /\ UNCHANGED reqs
       IN IF ~isEmail(email) THEN refused(400, "Please enter a valid email")
          ELSE IF id = "null" THEN refused(401, "Invalid credentials")
          ELSE IF ~users[id].isActive THEN refused(401, "Account is deactivated")
          ELSE IF ~comparePassword(password, users[id].password)
          THEN refused(401, "Invalid credentials")
          ELSE Park(r, [pc |-> "loginLastLogin", id |-> id, raw |-> body,
                        udoc |-> users[id]])

\* generateToken, user.updateLastLogin() and the 200 response of login
LoginLastLogin(r) ==
    /\ reqs[r].pc = "loginLastLogin"
    /\ UNCHANGED <<courses, usedIds, nreq>>
    /\ \E ok \in WriteOutcomes :
          IF ok
          THEN /\ users' = [users EXCEPT
                              ![reqs[r].id] = saveModified(@, reqs[r].udoc,
                                                 [reqs[r].udoc EXCEPT !.lastLogin = nreq])]
               /\ Finish(r, [AuthReply("login", reqs[r].raw, 200, "none") EXCEPT
                               !.user = reqs[r].id,
                               !.token = Jwt(reqs[r].id, TRUE, FALSE)],
                         NoLists)
               /\ UNCHANGED writeFailed
          ELSE AuthThrow(r, "login", "Server error during login", TRUE)

\* protect has admitted account a: the validators, the allowedFields loop,
\* User.findOne and the duplicate check of the profile update
ProfilePut(r, a, body) ==
    /\ Receive(r)
    /\ users[a].isActive
    /\ UNCHANGED <<courses, usedIds, users, writeFailed>>
    /\ LET updates == pick(body, allowedFields)
           hasEmail == "email" \in DOMAIN body
           email == IF hasEmail THEN normalizeEmail(body.email) ELSE users[a].email
           request(ups) == [pc |-> "update", id |-> a, updates |-> ups,
                            email |-> email, raw |-> body]
       IN IF hasEmail /\ ~isEmail(body.email)
          THEN /\ Send(AuthReply("profile", body, 400, "Please enter a valid email"), NoLists)
               /\ UNCHANGED reqs
          ELSE IF ~hasEmail \/ email = users[a].email
          THEN Park(r, request(updates))
          ELSE IF findOne(users, email) # "null"
          THEN /\ Send(AuthReply("profile", body, 400, "Email already in use"), NoLists)
               /\ UNCHANGED reqs
          ELSE Park(r, request(updates @@ [email |-> email, emailVerified |-> FALSE]))

\* User.findByIdAndUpdate(req.user.id, updates, { new: true, runValidators: true })
ProfileUpdate(r) ==
    /\ reqs[r].pc = "update"
    /\ UNCHANGED <<courses, usedIds, nreq>>
    /\ IF "email" \in DOMAIN reqs[r].updates
          /\ (\/ ~matchesSchema(reqs[r].email)
              \/ ~uniqueEmail(users, reqs[r].id, lowercase(reqs[r].email)))
       THEN AuthThrow(r, "profile", "Server error while updating profile", FALSE)
       ELSE \E ok \in WriteOutcomes :
              IF ok
              THEN /\ users' = [users EXCEPT ![reqs[r].id] = update(@, reqs[r].updates)]
                   /\ Finish(r, [AuthReply("profile", reqs[r].raw, 200, "none") EXCEPT
                                   !.user = reqs[r].id],
                             NoLists)
                   /\ UNCHANGED writeFailed
              ELSE AuthThrow(r, "profile", "Server error while updating profile", TRUE)

\* PUT /password after protect: User.findById and comparePassword
PasswordPut(r, a, currentPassword, newPassword) ==
    /\ Receive(r)
    /\ users[a].isActive
    /\ UNCHANGED <<courses, usedIds, users, writeFailed>>
    /\ LET body == [currentPassword |-> currentPassword, newPassword |-> newPassword]
       IN IF ~comparePassword(currentPassword, users[a].password)
          THEN /\ Send(AuthReply("password", body, 401, "Current password is incorrect"),
                       NoLists)
               /\ UNCHANGED reqs
          ELSE Park(r, [pc |-> "passwordSave", id |-> a, raw |-> body, udoc |-> users[a]])

\* user.password = newPassword, the pre-save hook and user.save()
PasswordSave(r) ==
    /\ reqs[r].pc = "passwordSave"
    /\ UNCHANGED <<courses, usedIds, nreq>>
    /\ \E ok \in WriteOutcomes :
          IF ok
          THEN /\ users' = [users EXCEPT
                              ![reqs[r].id] =
                                 saveModified(@, reqs[r].udoc,
                                    [reqs[r].udoc EXCEPT
                                       !.password = hash(reqs[r].raw.newPassword)])]
               /\ Finish(r, [AuthReply("password", reqs[r].raw, 200, "none") EXCEPT
                               !.user = reqs[r].id],
                         NoLists)
               /\ UNCHANGED writeFailed
          ELSE AuthThrow(r, "password", "Server error while changing password", TRUE)

SignupInit ==
    /\ courses = Catalog(0)
    /\ usedIds = {}
    /\ users \in {NoUsers, SeededUsers}
    /\ writeFailed = FALSE
    /\ reqs = [r \in Slots |-> Idle]
    /\ nreq = 0
    /\ last = NoResponse
    /\ prev = NoResponse
    /\ enrollPre = NoLists

SignupArrive ==
    \E r \in Slots :
        \/ \E body \in SignupBodies : SignupPost(r, body)
        \/ \E email \in Emails, password \in Passwords : LoginPost(r, email, password)
        \/ \E a \in DOMAIN users :
              \/ \E body \in ProfileBodies : ProfilePut(r, a, body)
              \/ \E current, new \in Passwords : PasswordPut(r, a, current, new)

SignupContinue ==
    \E r \in Slots :
        \/ SignupCreate(r)
        \/ SignupLastLogin(r)
        \/ LoginLastLogin(r)
        \/ ProfileUpdate(r)
        \/ PasswordSave(r)

SignupNext == SignupArrive \/ SignupContinue

SignupSpec == SignupInit /\ [][SignupNext]_vars

----------------------------------------------------------------------------
(* Both routers, one request at a time *)

\* The three seeded accounts and the course of Init, and the demo account
\* deactivated.
AccountInit ==
    /\ courses = [c \in {"c1"} |->
                    [NewCourse("ins") EXCEPT !.enrolledStudents = <<"stu">>,
                                             !.price = SeedPrice, !.v = 1]]
    /\ usedIds = {"c1"}
    /\ users = [a \in Accounts \cup {"demo"} |->
                  [NewUser([email |-> Address(a, FALSE, 3), password |-> "secret1"]) EXCEPT
                     !.role = IF a \in Accounts THEN role(a) ELSE "student",
                     !.isActive = (a \in Accounts),
                     !.enrolledCourses = IF a = "stu" THEN <<"c1">> ELSE <<>>,
                     !.v = IF a = "stu" THEN 1 ELSE 0]]
    /\ writeFailed = FALSE
    /\ reqs = [r \in Slots |-> Idle]
    /\ nreq = 0
    /\ last = NoResponse
    /\ prev = NoResponse
    /\ enrollPre = NoLists

AccountNext ==
    \/ AllIdle /\ (Arrive \/ SignupArrive)
    \/ Continue
    \/ SignupContinue

AccountSpec == AccountInit /\ [][AccountNext]_vars

----------------------------------------------------------------------------
(* Properties of signup *)

EmailsDistinct ==
    \A a, b \in DOMAIN users : a # b => users[a].email # users[b].email

\* Request r is a signup and this step answers it.
SignupAnswered(r) ==
    /\ reqs[r].pc \in {"create", "lastLogin"}
    /\ reqs'[r] = Idle

\* An account other than the one request r created holds r's email.
HeldByAnother(r) ==
    \E a \in DOMAIN users :
        /\ users[a].email = reqs[r].email
        /\ reqs[r].pc = "lastLogin" => a # reqs[r].id

SignupOutcome(r) ==
    IF HeldByAnother(r)
    THEN /\ last'.status = 400
         /\ users' = users
    ELSE matchesSchema(reqs[r].email) /\ ~writeFailed' =>
            /\ last'.status = 201
            /\ last'.token = Jwt(last'.user, TRUE, FALSE)
            /\ last'.user \in DOMAIN users'
            /\ Cardinality({a \in DOMAIN users' : users'[a].email = reqs[r].email}) = 1

\* C17: no two accounts hold the same email; a signup whose email is held by
\* an account when the signup is answered gets 400 and creates nothing,
\* also after two signups for one email both read before either wrote; a
\* signup with a fresh valid email gets 201 with a token and one account.
C17_UniqueEmail ==
    /\ []EmailsDistinct
    /\ [][\A r \in Slots : SignupAnswered(r) => SignupOutcome(r)]_vars

----------------------------------------------------------------------------
(* Properties of a half-done enrollment *)

\* What an enroll leaves whose course save succeeded and whose account save
\* failed: the account is in enrolledStudents, the course not in
\* enrolledCourses, and no enroll of the account in the course is under way.
EnrollPositions == {"enrollSaveCourse", "enrollFindUser", "enrollSaveUser"}

HalfDone(a, c) ==
    /\ c \in DOMAIN courses
    /\ includes(courses[c].enrolledStudents, a)
    /\ ~includes(users[a].enrolledCourses, c)
    /\ \A r \in Slots :
          ~(reqs[r].pc \in EnrollPositions /\ reqs[r].user = a /\ reqs[r].course = c)

\* An enroll resubmitted in the half-done state is refused and writes nothing.
ResubmitRejected(a, c) ==
    /\ \A r \in Slots :
          ~(Accepted(r, "enrollSaveCourse") /\ reqs'[r].user = a /\ reqs'[r].course = c)
    /\ AnsweredAtOnce("enroll") /\ last'.user = a /\ last'.course = c
         /\ courses[c].isPublished =>
          /\ last'.status = 400
          /\ last'.error = "Already enrolled in this course"
          /\ UNCHANGED <<courses, users>>

\* The course stays out of enrolledCourses, and the account leaves
\* enrolledStudents only in the course save of its own unenroll.
AbsentUntilUnenroll(a, c) ==
    /\ ~includes(users'[a].enrolledCourses, c)
    /\ c \in DOMAIN courses' /\ ~includes(courses'[c].enrolledStudents, a) =>
          \E r \in Slots :
             /\ reqs[r].pc = "unenrollSaveCourse"
             /\ reqs[r].user = a
             /\ reqs[r].course = c

\* The unenroll is let through, and unless a write fails it is answered 200.
UnenrollRepairs(a, c) ==
    /\ ~(AnsweredAtOnce("unenroll") /\ last'.user = a /\ last'.course = c)
    /\ \A r \in Slots :
          reqs[r].pc \in UnenrollPositions /\ reqs[r].user = a /\ reqs[r].course = c
             /\ reqs'[r] = Idle /\ ~writeFailed' =>
                /\ UnenrollOK(last')
                /\ ~includes(courses'[c].enrolledStudents, a)

\* The enroll after the unenroll is written on both sides.
FreshEnroll ==
    \A r \in Slots :
       Answers(r, "enrollSaveUser") /\ UnenrollOK(last) /\ SameCall(last, reqs[r])
          /\ last'.status = 200 =>
             /\ includes(courses'[reqs[r].course].enrolledStudents, reqs[r].user)
             /\ includes(users'[reqs[r].user].enrolledCourses, reqs[r].course)

HalfDoneSteps ==
    /\ FreshEnroll
    /\ \A a \in Accounts, c \in DOMAIN courses :
          HalfDone(a, c) =>
             /\ ResubmitRejected(a, c)
             /\ AbsentUntilUnenroll(a, c)
             /\ UnenrollRepairs(a, c)

\* C21: with requests served one at a time, once an enroll has written the
\* course side and failed on the account side, every resubmitted enroll is
\* answered 400 "Already enrolled" and changes nothing; the course stays out
\* of the account's enrolledCourses and the account stays in enrolledStudents
\* until the account unenrolls; that unenroll succeeds and removes the account
\* from enrolledStudents, and the enroll after it is written on both sides.
C21_ResubmitDoesNotRepair == [][HalfDoneSteps]_vars

----------------------------------------------------------------------------
(* Properties of concurrent reviews *)

RatingReflects(course) ==
    /\ course.rating.count = Len(course.reviews)
    /\ course.rating.average = Mean(course.reviews)

\* The step in which a review that reached addReview is answered 200, on a
\* course whose stored aggregate agreed with its stored reviews.
ReviewKept ==
    \A r \in Slots :
       LET a == reqs[r].user
           c == reqs[r].course
       IN Answers(r, "reviewSave") /\ last'.status = 200 /\ RatingReflects(courses[c]) =>
             /\ Member(courses'[c].reviews, Rated(a, reqs[r].rating))
             /\ \A i \in 1..Len(courses[c].reviews) :
                   courses[c].reviews[i].user # a =>
                      Member(courses'[c].reviews, courses[c].reviews[i])
             /\ RatingReflects(courses'[c])

\* C22: for requests served concurrently, a review answered 200 is in the
\* stored review list, the reviews other accounts had stored are still there,
\* and rating.count and rating.average are the length and the mean of the
\* stored list.
C22_NoReviewLost == [][ReviewKept]_vars

----------------------------------------------------------------------------
(* Properties of the course statistics *)

\* The statistics of course c in the current state.
StatsNow(c) == stats(courses[c], countCompleted(users, c))

StatsBounded(st, price) ==
    /\ st.totalCompleted <= st.totalEnrolled
    /\ st.completionRate >= 0
    /\ st.completionRate <= 100 * 100
    /\ st.totalEnrolled = 0 => st.completionRate = 0
    /\ st.revenue = price * st.totalEnrolled

\* C23: with requests served one at a time, for every course in every state
\* totalCompleted <= totalEnrolled, completionRate is between 0 and 100 (0
\* when nobody is enrolled) and revenue is price times totalEnrolled, in the
\* state and in every answer of GET /:id/stats.
C23_StatsBounded ==
    /\ \A c \in DOMAIN courses : StatsBounded(StatsNow(c), courses[c].price)
    /\ last.op = "stats" /\ last.status = 200 /\ last.course \in DOMAIN courses =>
          StatsBounded(last.stats, courses[last.course].price)

----------------------------------------------------------------------------
(* Properties of roles *)

\* No step changes the role or the activity flag of an account.
RoleKept ==
    \A a \in DOMAIN users :
        /\ a \in DOMAIN users'
        /\ users'[a].role = users[a].role
        /\ users'[a].isActive = users[a].isActive

\* An account that appears is a student.
CreatedAsStudent ==
    \A a \in DOMAIN users' \ DOMAIN users : users'[a].role = "student"

\* What a profile update answered 200 has written.
ProfileWrites ==
    \A r \in Slots :
       Answers(r, "update") /\ last'.status = 200 =>
          LET id == reqs[r].id IN
          /\ \A f \in DOMAIN users[id] :
                users'[id][f] # users[id][f] =>
                   f \in {"name", "bio", "avatar", "socialLinks", "email", "emailVerified"}
          /\ \A a \in DOMAIN users : a # id => users'[id].email # users[a].email

\* C24: with requests served one at a time, every account that signup creates
\* has role student whatever the body carries, no request of either router
\* changes the role or the activity flag of an account, and a profile update
\* writes only name, bio, avatar, socialLinks and an email no other account
\* holds.
C24_NoEscalation == [][RoleKept /\ CreatedAsStudent /\ ProfileWrites]_vars

C24_Witness ==
    /\ last.op = "signup"
    /\ last.status = 201
    /\ "role" \in DOMAIN last.body
    /\ last.body.role = "admin"
    /\ users[last.user].role = "student"

====
